---- MODULE Spec2Model ----
(***************************************************************************)
(* Model of src/scripts/simulation.py: simulate_apollo, a wagering session *)
(* that loses every bet, switches to a recovery stake after two losses and *)
(* stops at a stop loss or when the step range is exhausted.               *)
(*                                                                         *)
(* Python floats are IEEE-754 binary64.  They are modelled exactly: a      *)
(* float is a record [neg, m, e] standing for (-1)^neg * m * 2^e with      *)
(* 2^52 <= m < 2^53 (or m = 0), every arithmetic operation returns the     *)
(* correctly rounded (nearest, ties to even) result of the exact one, as   *)
(* the hardware does.  Mantissas do not fit TLC's integers, so naturals    *)
(* are little-endian digit sequences in base 2^15.                         *)
(***************************************************************************)
EXTENDS Integers, Sequences, FiniteSets, TLC

----------------------------------------------------------------------------
(* Arbitrary-precision naturals *)

Base == 2^15

\* the element of a one-element set.  The({e : x \in {v}}) is e with x
\* standing for the value of v, which is computed once.
The(S) == CHOOSE r \in S : TRUE

Max(S0) == The({(CHOOSE x \in S : \A y \in S : y <= x) : S \in {S0}})

\* the digit of weight Base^(k-1), 0 beyond the length
Digit(a, k) == IF k >= 1 /\ k <= Len(a) THEN a[k] ELSE 0

\* a without its leading zero digits
BNorm(a0) ==
  The({SubSeq(a, 1, Max({0} \cup {k \in 1..Len(a) : a[k] # 0})) : a \in {a0}})

RECURSIVE BFromInt(_)
BFromInt(n0) ==
  The({(IF n = 0 THEN <<>> ELSE <<n % Base>> \o BFromInt(n \div Base)) :
       n \in {n0}})

RECURSIVE BToInt(_)
BToInt(a0) ==
  The({(IF a = <<>> THEN 0 ELSE Head(a) + Base * BToInt(Tail(a))) :
       a \in {a0}})

\* a + b.  The carry into digit k is 1 exactly when some lower digit sum
\* overflows and every digit sum between is Base - 1 (digit sums <= 2*Base-2).
BAdd(a0, b0) ==
  The({(LET n == (IF Len(a) > Len(b) THEN Len(a) ELSE Len(b)) + 1
            s(k) == Digit(a, k) + Digit(b, k)
            c(k) == IF \E j \in 1..(k - 1) :
                         s(j) >= Base /\ \A l \in (j + 1)..(k - 1) : s(l) = Base - 1
                    THEN 1 ELSE 0
        IN  BNorm([k \in 1..n |-> (s(k) + c(k)) % Base])) :
       a \in {a0}, b \in {b0}})

\* a - b for a >= b.  The borrow from digit k is 1 exactly when some lower
\* digit of a is below b's and the digits between are equal.
BSub(a0, b0) ==
  The({(LET c(k) == IF \E j \in 1..(k - 1) :
                         a[j] < Digit(b, j)
                         /\ \A l \in (j + 1)..(k - 1) : a[l] = Digit(b, l)
                    THEN 1 ELSE 0
        IN  BNorm([k \in 1..Len(a) |-> (a[k] - Digit(b, k) - c(k)) % Base])) :
       a \in {a0}, b \in {b0}})

\* -1, 0, 1 as a < b, a = b, a > b (both without leading zeros)
BCmp(a0, b0) ==
  The({(IF Len(a) < Len(b) THEN -1
        ELSE IF Len(a) > Len(b) THEN 1
        ELSE IF a = b THEN 0
        ELSE The({(IF a[top] < b[top] THEN -1 ELSE 1) :
                  top \in {Max({k \in 1..Len(a) : a[k] # b[k]})}})) :
       a \in {a0}, b \in {b0}})

\* a * k for 0 <= k < Base: the low halves of the digit products plus the
\* high halves one place up
BMulSmall(a0, k0) ==
  The({(IF k = 0 \/ a = <<>> THEN <<>>
        ELSE BAdd([j \in 1..Len(a) |-> (a[j] * k) % Base],
                  <<0>> \o [j \in 1..Len(a) |-> (a[j] * k) \div Base])) :
       a \in {a0}, k \in {k0}})

\* low + hi * Base
BShiftAdd(low, hi0) ==
  The({(IF hi = <<>> THEN low ELSE BAdd(low, <<0>> \o hi)) : hi \in {hi0}})

RECURSIVE BMul(_, _)
BMul(a0, b0) ==
  The({(IF a = <<>> \/ b = <<>> THEN <<>>
        ELSE BShiftAdd(BMulSmall(a, Head(b)), BMul(a, Tail(b)))) :
       a \in {a0}, b \in {b0}})

\* a * 2^n
BShl(a0, n0) ==
  The({(IF a = <<>> THEN <<>>
        ELSE [k \in 1..(n \div 15) |-> 0] \o BMulSmall(a, 2^(n % 15))) :
       a \in {a0}, n \in {n0}})

\* the number of binary digits of a digit n
IntBitLen(n0) == The({Cardinality({k \in 0..14 : 2^k <= n}) : n \in {n0}})

BBitLen(a0) ==
  The({(IF a = <<>> THEN 0 ELSE 15 * (Len(a) - 1) + IntBitLen(a[Len(a)])) :
       a \in {a0}})

\* floor(a / 2^n) for 0 <= n < 15
BShrSmall(a0, n0) ==
  The({BNorm([k \in 1..Len(a) |->
                (a[k] \div 2^n) + (Digit(a, k + 1) % 2^n) * 2^(15 - n)]) :
       a \in {a0}, n \in {n0}})

\* the quotient digit floor(r / b) < Base, from the estimate on the leading
\* digits, which is at most 2 too large when b's top digit is >= Base / 2
BQuotDigit(r0, b0) ==
  The({The({(IF BCmp(BMulSmall(b, qhat), r) <= 0 THEN qhat
             ELSE IF BCmp(BMulSmall(b, qhat - 1), r) <= 0 THEN qhat - 1
             ELSE qhat - 2) :
            qhat \in {LET n   == Len(b)
                          est == (Digit(r, n + 1) * Base + Digit(r, n)) \div b[n]
                      IN  IF est > Base - 1 THEN Base - 1 ELSE est}}) :
       r \in {r0}, b \in {b0}})

\* one step of long division: the digit d0 joins the remainder hi.r of the
\* digits above it
BDivDigit(d0, hi0, b0) ==
  The({(IF hi.r = <<>> /\ d = 0
        THEN [q |-> IF hi.q = <<>> THEN <<>> ELSE <<0>> \o hi.q, r |-> <<>>]
        ELSE The({[q |-> BNorm(<<qd>> \o hi.q),
                   r |-> BSub(<<d>> \o hi.r, BMulSmall(b, qd))] :
                  qd \in {BQuotDigit(<<d>> \o hi.r, b)}})) :
       d \in {d0}, hi \in {hi0}, b \in {b0}})

RECURSIVE BDivNorm(_, _)
\* long division, one digit of a at a time from the most significant,
\* for b with top digit >= Base / 2
BDivNorm(a0, b0) ==
  The({(IF Len(a) < Len(b) THEN [q |-> <<>>, r |-> a]
        ELSE BDivDigit(Head(a), BDivNorm(Tail(a), b), b)) :
       a \in {a0}, b \in {b0}})

\* [q, r] with a = q * b + r, 0 <= r < b, for b > 0
BDivMod(a0, b0) ==
  The({The({[q |-> qr.q, r |-> BShrSmall(qr.r, 15 - IntBitLen(b[Len(b)]))] :
            qr \in {LET sh == 15 - IntBitLen(b[Len(b)])
                    IN  BDivNorm(BShl(a, sh), BShl(b, sh))}}) :
       a \in {a0}, b \in {b0}})

\* the integer nearest to n / d, ties to the even one
BRoundDiv(n0, d0) ==
  The({(LET twoR == BCmp(BShl(qr.r, 1), d)
            odd  == qr.q # <<>> /\ Head(qr.q) % 2 = 1
        IN  IF twoR > 0 THEN BAdd(qr.q, <<1>>)
            ELSE IF twoR < 0 THEN qr.q
            ELSE IF odd THEN BAdd(qr.q, <<1>>) ELSE qr.q) :
       qr \in {BDivMod(n0, d0)}, d \in {d0}})

----------------------------------------------------------------------------
(* IEEE-754 binary64 *)

Zero == [neg |-> FALSE, m |-> <<>>, e |-> 0]

\* n / (d * 2^e) as a fraction of naturals
Scale(n, d, e) ==
  [n |-> IF e < 0 THEN BShl(n, -e) ELSE n,
   d |-> IF e > 0 THEN BShl(d, e) ELSE d]

\* the exponent e with 2^52 <= n / (d * 2^e) < 2^53, for n, d > 0
Exponent(n0, d0) ==
  The({The({(IF BCmp(s.n, BShl(s.d, 53)) >= 0
             THEN BBitLen(n) - BBitLen(d) - 52
             ELSE BBitLen(n) - BBitLen(d) - 53) :
            s \in {Scale(n, d, BBitLen(n) - BBitLen(d) - 53)}}) :
       n \in {n0}, d \in {d0}})

\* the float nearest to (-1)^neg * (n / d) * 2^k, ties to even
RN(neg, n0, d0, k) ==
  The({(IF n = <<>> THEN Zero
        ELSE The({The({(IF BBitLen(m) > 53
                        THEN [neg |-> neg, m |-> BShl(<<1>>, 52), e |-> eb + 1 + k]
                        ELSE [neg |-> neg, m |-> m, e |-> eb + k]) :
                       m \in {BRoundDiv(Scale(n, d, eb).n, Scale(n, d, eb).d)}}) :
                  eb \in {Exponent(n, d)}})) :
       n \in {n0}, d \in {d0}})

\* a decimal literal n/d of the source text, n and d integers, d > 0
Lit(n, d) ==
  RN(n < 0, BFromInt(IF n < 0 THEN -n ELSE n), BFromInt(d), 0)

\* -1, 0, 1 as |x| < |y|, |x| = |y|, |x| > |y|
MagCmp(x0, y0) ==
  The({(IF x.m = <<>> THEN (IF y.m = <<>> THEN 0 ELSE -1)
        ELSE IF y.m = <<>> THEN 1
        ELSE IF x.e < y.e THEN -1
        ELSE IF x.e > y.e THEN 1
        ELSE BCmp(x.m, y.m)) :
       x \in {x0}, y \in {y0}})

\* -1, 0, 1 as x < y, x == y, x > y
FCmp(x0, y0) ==
  The({(IF x.m = <<>> /\ y.m = <<>> THEN 0
        ELSE IF x.neg /\ ~y.neg THEN -1
        ELSE IF ~x.neg /\ y.neg THEN 1
        ELSE IF x.neg THEN -MagCmp(x, y) ELSE MagCmp(x, y)) :
       x \in {x0}, y \in {y0}})

FLt(x, y) == FCmp(x, y) < 0
FGe(x, y) == FCmp(x, y) >= 0

FNeg(x0) ==
  The({(IF x.m = <<>> THEN x ELSE [x EXCEPT !.neg = ~x.neg]) : x \in {x0}})

abs(x) == [x EXCEPT !.neg = FALSE]

\* the sum of (-1)^xneg * xs * 2^emin and (-1)^yneg * ys * 2^emin
AddAligned(xneg, xs0, yneg, ys0, emin) ==
  The({(IF xneg = yneg THEN RN(xneg, BAdd(xs, ys), <<1>>, emin)
        ELSE IF BCmp(xs, ys) >= 0
             THEN RN(xneg, BSub(xs, ys), <<1>>, emin)
             ELSE RN(yneg, BSub(ys, xs), <<1>>, emin)) :
       xs \in {xs0}, ys \in {ys0}})

\* x + y
FAdd(x0, y0) ==
  The({(IF x.m = <<>> THEN y
        ELSE IF y.m = <<>> THEN x
        ELSE LET emin == IF x.e < y.e THEN x.e ELSE y.e
             IN  AddAligned(x.neg, BShl(x.m, x.e - emin),
                            y.neg, BShl(y.m, y.e - emin), emin)) :
       x \in {x0}, y \in {y0}})

\* x - y
FSub(x, y) == FAdd(x, FNeg(y))

\* x * y
FMul(x0, y0) ==
  The({(IF x.m = <<>> \/ y.m = <<>> THEN Zero
        ELSE RN(x.neg # y.neg, BMul(x.m, y.m), <<1>>, x.e + y.e)) :
       x \in {x0}, y \in {y0}})

\* x / y for y # 0
FDiv(x0, y0) ==
  The({(IF x.m = <<>> THEN Zero
        ELSE RN(x.neg # y.neg, x.m, y.m, x.e - y.e)) :
       x \in {x0}, y \in {y0}})

\* the integer nearest to |x| * 10^ndigits (ties to even), as a natural:
\* the digits Python's correctly rounded conversion prints for "%.<ndigits>f"
Digits(x0, ndigits) ==
  The({(IF x.m = <<>> THEN <<>>
        ELSE IF x.e >= 0 THEN BShl(BMul(x.m, BFromInt(10^ndigits)), x.e)
        ELSE BRoundDiv(BMul(x.m, BFromInt(10^ndigits)), BShl(<<1>>, -x.e))) :
       x \in {x0}})

\* round(x, ndigits) of Python 3: the float nearest to the correctly
\* rounded decimal with ndigits fractional digits
round(x0, ndigits) ==
  The({(IF x.m = <<>> THEN x
        ELSE RN(x.neg, Digits(x, ndigits), BFromInt(10^ndigits), 0)) :
       x \in {x0}})

\* the amount in cents that f"{x:.2f}" prints (sign dropped)
Cents(x) == BToInt(Digits(x, 2))

----------------------------------------------------------------------------
(* simulate_apollo *)

VARIABLES
  stop_loss, mode,                               \* the call's arguments
  base_stake, payout_u8, payout_u4, profit_pct,  \* set once on entry
  balance, loss_streak, accumulated_loss,        \* the session state
  history,                                       \* the ledger
  i, current_stake, contract,                    \* the loop's locals
  stop_report,                                   \* the stop-loss lines printed
  pc                                             \* "loop", "done"; "decide", "decided"

vars == <<stop_loss, mode, base_stake, payout_u8, payout_u4, profit_pct,
          balance, loss_streak, accumulated_loss, history,
          i, current_stake, contract, stop_report, pc>>

\* bounds of the inputs explored
MaxStopExp == 7
MaxStreak == 3
MaxAccCents == 1000

\* mode arguments: the two the code names and one it does not
Modes == {"conservador", "agressivo", "moderado"}

\* stop_loss arguments, in cents: non-positive ones, the default 50.00
\* (5 * 10^3), one that the exact sum of six conservative stakes equals,
\* and two decades of thresholds up to ones no run reaches
StopLossCents ==
  {-100, 0, 2344} \cup {5 * 10^k : k \in 0..MaxStopExp}
                  \cup {10^k : k \in 0..MaxStopExp}

\* range(1, 20): the loop variable takes 1 .. RangeStop - 1
RangeStop == 20

\* the two margins the wrong way round
ProfitPctSwapped(md) == IF md = "conservador" THEN Lit(15, 100) ELSE Lit(2, 100)

\* profit_pct = 0.02 if mode == 'conservador' else 0.15
ProfitPct(md) == IF md = "conservador" THEN Lit(2, 100) ELSE Lit(15, 100)

\* a target of the margin alone, without the loss to recover
TargetMarginOnly(acc, pct) == FMul(acc, pct)

\* target = accumulated_loss * (1 + profit_pct)
Target(acc, pct) == FMul(acc, FAdd(Lit(1, 1), pct))

\* a recovery that leaves the margin out of the target
RecoveryStakeNoMargin(acc, pct, payout) ==
  The({(IF FLt(stake, Lit(35, 100)) THEN Lit(35, 100) ELSE stake) :
       stake \in {round(FDiv(acc, payout), 2)}})

\* a recovery computed from the 2.00 lost when recovery began, not from
\* the current accumulated loss
RecoveryStakeSnapshot(acc, pct, payout) ==
  The({(IF FLt(stake, Lit(35, 100)) THEN Lit(35, 100) ELSE stake) :
       stake \in {round(FDiv(Target(Lit(2, 1), pct), payout), 2)}})

\* the else branch: the stake that recovers acc plus the margin on a U4 win
RecoveryStake(acc, pct, payout) ==
  The({(IF FLt(stake, Lit(35, 100)) THEN Lit(35, 100) ELSE stake) :
       stake \in {LET required_profit == Target(acc, pct)
                  IN  round(FDiv(required_profit, payout), 2)}})

\* a decision that starts recovering after a single loss
DecideRecoverAfterOne(streak, acc, base, pct, payout) ==
  IF streak = 0 THEN [contract |-> "U8", stake |-> base]
  ELSE [contract |-> "U4", stake |-> RecoveryStake(acc, pct, payout)]

\* the bet of one step: contract and stake from the loss streak
Decide(streak, acc, base, pct, payout) ==
  IF streak = 0 THEN [contract |-> "U8", stake |-> base]
  ELSE IF streak = 1 THEN [contract |-> "U8", stake |-> base]
  ELSE [contract |-> "U4", stake |-> RecoveryStake(acc, pct, payout)]

\* a loss that overwrites the accumulated loss instead of adding to it
SimulateLossOverwrite(bal, acc, streak, stake) ==
  [balance |-> FSub(bal, stake),
   accumulated_loss |-> stake,
   loss_streak |-> streak + 1]

\* a loss that leaves the loss streak where it was
SimulateLossKeepStreak(bal, acc, streak, stake) ==
  [balance |-> FSub(bal, stake),
   accumulated_loss |-> FAdd(acc, stake),
   loss_streak |-> streak]

\* "Simulate LOSS": the state after losing stake
SimulateLoss(bal, acc, streak, stake) ==
  [balance |-> FSub(bal, stake),
   accumulated_loss |-> FAdd(acc, stake),
   loss_streak |-> streak + 1]

\* a stop-loss test that forgets the balance is negative
StopLossHitSigned(bal, sl) == FGe(bal, sl)

\* a stop-loss test that lets a balance equal to the limit pass
StopLossHitStrict(bal, sl) == FCmp(abs(bal), sl) > 0

\* if abs(balance) >= stop_loss
StopLossHit(bal, sl) == FGe(abs(bal), sl)

\* a range that runs two elements too far
RangeExhaustedLate(step) == step >= RangeStop + 1

\* the for loop has no further element after step
RangeExhausted(step) == step >= RangeStop - 1

\* an entry with a base stake of 0.10
EntryTenthStake(sl, md) ==
  /\ stop_loss = Lit(sl, 100)
  /\ mode = md
  /\ base_stake = Lit(10, 100)
  /\ payout_u8 = Lit(19, 100)
  /\ payout_u4 = Lit(120, 100)
  /\ profit_pct = ProfitPct(md)
  /\ balance = Zero
  /\ loss_streak = 0
  /\ accumulated_loss = Zero
  /\ history = <<>>
  /\ i = 0
  /\ current_stake = Zero
  /\ contract = ""
  /\ stop_report = <<>>

\* the state on reaching the loop, for the arguments sl (cents) and md
Entry(sl, md) ==
  /\ stop_loss = Lit(sl, 100)
  /\ mode = md
  /\ base_stake = Lit(1, 1)
  /\ payout_u8 = Lit(19, 100)
  /\ payout_u4 = Lit(120, 100)
  /\ profit_pct = ProfitPct(md)
  /\ balance = Zero
  /\ loss_streak = 0
  /\ accumulated_loss = Zero
  /\ history = <<>>
  /\ i = 0
  /\ current_stake = Zero
  /\ contract = ""
  /\ stop_report = <<>>

Init ==
  /\ \E sl \in StopLossCents, md \in Modes : Entry(sl, md)
  /\ pc = "loop"

\* an iteration that keeps only its own entry in the ledger
StepRewritingLedger ==
  /\ pc = "loop"
  /\ \E bet \in {Decide(loss_streak, accumulated_loss, base_stake,
                         profit_pct, payout_u4)} :
     \E post \in {SimulateLoss(balance, accumulated_loss, loss_streak,
                               bet.stake)} :
     \E hit \in {StopLossHit(post.balance, stop_loss)} :
         /\ i' = i + 1
         /\ current_stake' = bet.stake
         /\ contract' = bet.contract
         /\ balance' = post.balance
         /\ accumulated_loss' = post.accumulated_loss
         /\ loss_streak' = post.loss_streak
         /\ history' = <<[step |-> i + 1, contract |-> bet.contract,
                          stake |-> bet.stake, balance |-> post.balance,
                          acc_loss |-> post.accumulated_loss]>>
         /\ stop_report' =
              IF hit THEN <<[aposta |-> i + 1,
                             total_investido |-> Cents(abs(post.balance))]>>
              ELSE stop_report
         /\ pc' = IF hit \/ RangeExhausted(i + 1) THEN "done" ELSE "loop"
  /\ UNCHANGED <<stop_loss, mode, base_stake, payout_u8, payout_u4, profit_pct>>

\* an iteration that raises the stop loss by the base stake
StepMovingStopLoss ==
  /\ pc = "loop"
  /\ \E bet \in {Decide(loss_streak, accumulated_loss, base_stake,
                         profit_pct, payout_u4)} :
     \E post \in {SimulateLoss(balance, accumulated_loss, loss_streak,
                               bet.stake)} :
     \E hit \in {StopLossHit(post.balance, stop_loss)} :
         /\ i' = i + 1
         /\ current_stake' = bet.stake
         /\ contract' = bet.contract
         /\ balance' = post.balance
         /\ accumulated_loss' = post.accumulated_loss
         /\ loss_streak' = post.loss_streak
         /\ history' = Append(history,
                              [step |-> i + 1, contract |-> bet.contract,
                               stake |-> bet.stake, balance |-> post.balance,
                               acc_loss |-> post.accumulated_loss])
         /\ stop_report' =
              IF hit THEN <<[aposta |-> i + 1,
                             total_investido |-> Cents(abs(post.balance))]>>
              ELSE stop_report
         /\ pc' = IF hit \/ RangeExhausted(i + 1) THEN "done" ELSE "loop"
  /\ stop_loss' = FAdd(stop_loss, base_stake)
  /\ UNCHANGED <<mode, base_stake, payout_u8, payout_u4, profit_pct>>

\* one iteration of the for loop, up to the break or the end of the range
Step ==
  /\ pc = "loop"
  /\ \E bet \in {Decide(loss_streak, accumulated_loss, base_stake,
                         profit_pct, payout_u4)} :
     \E post \in {SimulateLoss(balance, accumulated_loss, loss_streak,
                               bet.stake)} :
     \E hit \in {StopLossHit(post.balance, stop_loss)} :
         /\ i' = i + 1
         /\ current_stake' = bet.stake
         /\ contract' = bet.contract
         /\ balance' = post.balance
         /\ accumulated_loss' = post.accumulated_loss
         /\ loss_streak' = post.loss_streak
         /\ history' = Append(history,
                              [step |-> i + 1, contract |-> bet.contract,
                               stake |-> bet.stake, balance |-> post.balance,
                               acc_loss |-> post.accumulated_loss])
         /\ stop_report' =
              IF hit THEN <<[aposta |-> i + 1,
                             total_investido |-> Cents(abs(post.balance))]>>
              ELSE stop_report
         /\ pc' = IF hit \/ RangeExhausted(i + 1) THEN "done" ELSE "loop"
  /\ UNCHANGED <<stop_loss, mode, base_stake, payout_u8, payout_u4, profit_pct>>

Next == Step

Spec == Init /\ [][Next]_vars

\* the loop runs on: nothing suspends it
FairSpec == Spec /\ WF_vars(Step)

----------------------------------------------------------------------------
(* The staking decision alone (lines 33-63), on inputs from bounded sets *)

PolicyInit ==
  /\ \E md \in Modes, st \in 0..MaxStreak, c \in 0..MaxAccCents :
       /\ mode = md
       /\ profit_pct = ProfitPct(md)
       /\ loss_streak = st
       /\ accumulated_loss = Lit(c, 100)
       /\ balance = Lit(-c, 100)
  /\ stop_loss = Lit(5000, 100)
  /\ base_stake = Lit(1, 1)
  /\ payout_u8 = Lit(19, 100)
  /\ payout_u4 = Lit(120, 100)
  /\ history = <<>>
  /\ i = 0
  /\ current_stake = Zero
  /\ contract = ""
  /\ stop_report = <<>>
  /\ pc = "decide"

\* the loop body up to the bet
PolicyDecide ==
  /\ pc = "decide"
  /\ \E bet \in {Decide(loss_streak, accumulated_loss, base_stake,
                        profit_pct, payout_u4)} :
       /\ current_stake' = bet.stake
       /\ contract' = bet.contract
  /\ pc' = "decided"
  /\ UNCHANGED <<stop_loss, mode, base_stake, payout_u8, payout_u4,
                 profit_pct, balance, loss_streak, accumulated_loss,
                 history, i, stop_report>>

PolicySpec == PolicyInit /\ [][PolicyDecide]_vars

----------------------------------------------------------------------------
(* Properties *)

\* an amount of cents as the float a decimal literal of it denotes
Money(c) == Lit(c, 100)

\* the session ended on the stop-loss branch / by running out of steps
StoppedOut == pc = "done" /\ stop_report # <<>>
MaxStepsReached == pc = "done" /\ stop_report = <<>>

\* the integers nearest to n / d (two of them on a tie), n >= 0, d > 0
Nearest(n0, d) ==
  The({{r \in {n \div d, n \div d + 1} : 2 * (r * d - n) \in (0 - d)..d} :
       n \in {n0}})

\* the margin of the mode in percent, as the configuration states it
MarginPct == IF mode = "conservador" THEN 2 ELSE 15

\* |x| is within half a cent of c cents: for x = m * 2^e,
\* |200 * m * 2^e - 2 * c| <= 1, scaled to naturals
WithinHalfCent(x, c) ==
  LET up   == IF x.e > 0 THEN x.e ELSE 0
      down == IF x.e < 0 THEN 0 - x.e ELSE 0
  IN  The({(IF BCmp(xs, cs) >= 0
            THEN BCmp(BSub(xs, cs), BShl(<<1>>, down)) <= 0
            ELSE BCmp(BSub(cs, xs), BShl(<<1>>, down)) <= 0) :
           xs \in {BShl(BMul(x.m, BFromInt(200)), up)},
           cs \in {BShl(BFromInt(2 * c), down)}})

\* C1: a bet decided with a loss streak of 2 or more is on U4 (Recovery) and
\* its stake is accumulated_loss * (1 + margin) / 1.20 rounded to the cent,
\* raised to 0.35 when the rounded value is below 0.35; so it is >= 0.35.
\* Aggressive with 10.00 lost stakes 9.58.
C1_RecoveryStake ==
  (pc = "decided" /\ loss_streak >= 2) =>
    /\ contract = "U4"
    /\ \E r \in Nearest(Cents(accumulated_loss) * (100 + MarginPct), 120) :
         current_stake = Money(IF r < 35 THEN 35 ELSE r)
    /\ FGe(current_stake, Money(35))
    /\ (mode = "agressivo" /\ accumulated_loss = Money(1000))
         => current_stake = Money(958)

C1_Witness ==
  /\ pc = "decided" /\ loss_streak >= 2 /\ mode = "agressivo"
  /\ accumulated_loss = Money(1000) /\ current_stake = Money(958)

\* C1, the boundary: a computed stake of 0.10 is raised to 0.35
C1_WitnessFloor ==
  /\ pc = "decided" /\ loss_streak >= 2 /\ mode = "conservador"
  /\ accumulated_loss = Money(12) /\ current_stake = Money(35)

\* C2: a bet decided with a loss streak of 0 or 1 is on U8 (Normal) at
\* exactly base_stake, whatever the accumulated loss and the mode.
C2_NormalStake ==
  (pc = "decided" /\ loss_streak \in {0, 1}) =>
    /\ contract = "U8"
    /\ current_stake = base_stake
    /\ current_stake = Money(100)

C2_Witness ==
  /\ pc = "decided" /\ loss_streak = 1 /\ mode = "agressivo"
  /\ accumulated_loss = Money(1000) /\ current_stake = base_stake

\* C3: with no win ever, accumulated_loss == -balance in the initial state
\* and after every step, in the state and in every ledger entry.
C3_AccumulatedIsMinusBalance ==
  /\ FCmp(accumulated_loss, FNeg(balance)) = 0
  /\ \A k \in 1..Len(history) :
       FCmp(history[k].acc_loss, FNeg(history[k].balance)) = 0

\* after six conservative losses the sum is 23.439999999999998, not 23.44
C3_Witness ==
  /\ mode = "conservador" /\ Len(history) = 6
  /\ Cents(accumulated_loss) = 2344 /\ accumulated_loss # Money(2344)
  /\ FCmp(accumulated_loss, FNeg(balance)) = 0

\* C4: every session terminates, and never holds more than 20 bets.
C4_TerminatesWithinCap == <>(pc = "done") /\ [](Len(history) <= 20)

C4_Witness == MaxStepsReached /\ Len(history) = RangeStop - 1

\* C5: a session that ended with abs(balance) >= stop_loss ended on the
\* stop-loss branch, which reports abs(balance) as the total invested (to
\* the cent it prints) and the step it stopped at, also on the last step
\* of the range.
C5_StoppedOutReportsBalance ==
  (pc = "done" /\ FGe(abs(balance), stop_loss)) =>
    /\ StoppedOut
    /\ Len(stop_report) = 1
    /\ stop_report[1].aposta = Len(history)
    /\ WithinHalfCent(balance, stop_report[1].total_investido)

C5_Witness ==
  /\ StoppedOut /\ Len(history) = RangeStop - 1
  /\ FGe(abs(balance), stop_loss)
  /\ WithinHalfCent(balance, stop_report[1].total_investido)

\* C6: a session the stop loss never ends places exactly 20 bets.
C6_ExactlyTwentyBets == MaxStepsReached => Len(history) = 20

\* C7: with a stop loss <= 0 or a mode other than the two named ones no
\* step runs: the ledger stays empty and the session state zeroed.
C7_InvalidConfigurationRejected ==
  (FCmp(stop_loss, Zero) <= 0 \/ mode \notin {"conservador", "agressivo"}) =>
    /\ history = <<>>
    /\ i = 0
    /\ balance = Zero /\ accumulated_loss = Zero /\ loss_streak = 0

\* C8: wherever a bet can be placed a winning step is possible: one that
\* raises the balance and zeroes accumulated_loss and loss_streak.
C8_WinTransitionDefined ==
  pc = "loop" =>
    ENABLED (/\ Step
             /\ FCmp(balance', balance) > 0
             /\ accumulated_loss' = Zero
             /\ loss_streak' = 0)

\* C10: conservative, stop loss 50.00, base stake 1.00: bets 1 and 2 are U8
\* at 1.00, bet 3 is U4 at 1.70 (from 2.00 lost, target 2.04) and leaves
\* the balance at -3.70.
C10_ConservativeScenario ==
  (mode = "conservador" /\ stop_loss = Money(5000) /\ Len(history) >= 3) =>
    /\ history[1].contract = "U8" /\ history[1].stake = Money(100)
    /\ history[2].contract = "U8" /\ history[2].stake = Money(100)
    /\ history[2].acc_loss = Money(200)
    /\ Target(history[2].acc_loss, profit_pct) = Money(204)
    /\ history[3].contract = "U4" /\ history[3].stake = Money(170)
    /\ history[3].balance = Money(-370)

C10_Witness ==
  /\ mode = "conservador" /\ stop_loss = Money(5000) /\ Len(history) = 3
  /\ current_stake = Money(170) /\ balance = Money(-370)

\* C11: loss_streak starts at 0 and every step adds exactly 1 to it, so a
\* session never returns to a streak of 0 or 1: in every ledger bets 1 and 2
\* are on U8 (Normal) and every bet from the third on is on U4 (Recovery).
C11_StreakOnlyGrows ==
  /\ loss_streak = 0
  /\ [][loss_streak' = loss_streak + 1]_vars
  /\ [](\A k \in 1..Len(history) :
          history[k].contract = IF k <= 2 THEN "U8" ELSE "U4")

C11_Witness ==
  /\ loss_streak = 4 /\ Len(history) = 4
  /\ history[2].contract = "U8" /\ history[3].contract = "U4"
  /\ history[4].contract = "U4"

\* C12: the stop loss is tested after each bet on the balance that bet
\* left, and the first bet that reaches it is the last: with stop_loss > 0
\* every ledger entry but the last has abs(balance) < stop_loss, and so has
\* the last one while the loop goes on.
C12_NoBetPastStopLoss ==
  FCmp(stop_loss, Zero) > 0 =>
    /\ \A k \in 1..(Len(history) - 1) :
         FLt(abs(history[k].balance), stop_loss)
    /\ pc = "loop" =>
         \A k \in 1..Len(history) : FLt(abs(history[k].balance), stop_loss)
    /\ StoppedOut => FGe(abs(history[Len(history)].balance), stop_loss)

\* a session stopped by a last stake that overshoots the limit
C12_Witness ==
  /\ StoppedOut /\ Len(history) >= 3
  /\ FCmp(stop_loss, Zero) > 0
  /\ FCmp(abs(balance), stop_loss) > 0
  /\ FLt(abs(history[Len(history) - 1].balance), stop_loss)

\* C13: while the session stays on U4 (Recovery) the stake strictly grows
\* from bet to bet, each being computed from the accumulated loss of its
\* own step: of two consecutive U4 ledger entries the later stake is the
\* greater, and it follows a greater accumulated loss.
C13_RecoveryStakeGrows ==
  \A k \in 2..Len(history) :
    (history[k - 1].contract = "U4" /\ history[k].contract = "U4") =>
      /\ FCmp(history[k].stake, history[k - 1].stake) > 0
      /\ FCmp(history[k - 1].acc_loss, history[k - 2].acc_loss) > 0

C13_Witness ==
  /\ Len(history) = 5 /\ mode = "conservador"
  /\ history[3].contract = "U4" /\ history[3].stake = Money(170)
  /\ history[4].contract = "U4" /\ history[4].stake = Money(315)
  /\ history[5].contract = "U4" /\ history[5].stake = Money(582)

\* C14: the ledger is append-only, one entry per step: every step adds one
\* entry at the end and leaves the earlier ones as they were, after step n
\* the entries are numbered 1..n in order, and each entry holds the stake
\* of its step and the balance and accumulated loss with that stake
\* already booked.
C14_LedgerAppendOnly ==
  /\ history = <<>>
  /\ [][/\ Len(history') = Len(history) + 1
        /\ SubSeq(history', 1, Len(history)) = history]_vars
  /\ [](/\ Len(history) = i
        /\ \A k \in 1..Len(history) :
             /\ history[k].step = k
             /\ history[k].balance =
                  FSub(IF k = 1 THEN Zero ELSE history[k - 1].balance,
                       history[k].stake)
             /\ history[k].acc_loss =
                  FAdd(IF k = 1 THEN Zero ELSE history[k - 1].acc_loss,
                       history[k].stake)
        /\ Len(history) > 0 =>
             /\ history[Len(history)].stake = current_stake
             /\ history[Len(history)].balance = balance
             /\ history[Len(history)].acc_loss = accumulated_loss)

C14_Witness ==
  /\ Len(history) = 3 /\ i = 3 /\ mode = "agressivo"
  /\ history[1].step = 1 /\ history[1].balance = Money(-100)
  /\ history[2].step = 2 /\ history[2].balance = Money(-200)
  /\ history[3].step = 3 /\ history[3].stake = Money(192)
  /\ history[3].balance = Money(-392) /\ history[3].acc_loss = Money(392)

\* C15: no step changes the configuration: stop_loss, mode, profit_pct,
\* base_stake and the two payout rates keep in every state the values they
\* got on entry: 1.0, 0.19, 1.20, and a margin of 0.02 for conservador
\* and 0.15 for agressivo.
C15_ConfigurationFrozen ==
  /\ [][UNCHANGED <<stop_loss, mode, base_stake, payout_u8, payout_u4,
                    profit_pct>>]_vars
  /\ [](/\ base_stake = Lit(1, 1)
        /\ payout_u8 = Lit(19, 100)
        /\ payout_u4 = Lit(120, 100)
        /\ mode = "conservador" => profit_pct = Lit(2, 100)
        /\ mode = "agressivo" => profit_pct = Lit(15, 100))

C15_Witness ==
  /\ Len(history) = 5 /\ mode = "agressivo" /\ stop_loss = Money(5000)
  /\ profit_pct = Lit(15, 100) /\ base_stake = Lit(1, 1)
  /\ loss_streak = 5 /\ FLt(balance, Zero)

\* C16: with base_stake 1.0 the 0.35 floor changes no stake of a session:
\* every U4 bet follows an accumulated loss of at least 2.00, its stake is
\* the rounded quotient itself and at least 1.70 (conservador) or 1.92
\* (margin 0.15), and every stake of every ledger is at least base_stake.
C16_FloorNeverApplies ==
  \A k \in 1..Len(history) :
    /\ FGe(history[k].stake, base_stake)
    /\ history[k].contract = "U4" =>
         /\ k >= 3
         /\ FGe(history[k - 1].acc_loss, Money(200))
         /\ history[k].stake =
              round(FDiv(Target(history[k - 1].acc_loss, profit_pct),
                         payout_u4), 2)
         /\ FGe(history[k].stake,
                Money(IF mode = "conservador" THEN 170 ELSE 192))

C16_Witness ==
  /\ Len(history) = 3 /\ mode = "agressivo"
  /\ history[3].contract = "U4" /\ history[2].acc_loss = Money(200)
  /\ history[3].stake = Money(192) /\ stop_loss = Money(5000)

\* C17: the default call (stop loss 50.0, conservador, base stake 1.0) ends
\* on the stop loss and not by running out of steps: abs(balance) is below
\* 50 after each of bets 1..7 and at least 50 after bet 8, and the ledger
\* then holds exactly 8 entries.
C17_DefaultStopsAtEight ==
  (mode = "conservador" /\ stop_loss = Money(5000)) =>
    /\ Len(history) <= 8
    /\ \A k \in 1..Len(history) :
         IF k <= 7 THEN FLt(abs(history[k].balance), Money(5000))
         ELSE FGe(abs(history[k].balance), Money(5000))
    /\ Len(history) < 8 => pc = "loop"
    /\ Len(history) = 8 => StoppedOut /\ stop_report[1].aposta = 8

C17_Witness ==
  /\ mode = "conservador" /\ stop_loss = Money(5000)
  /\ StoppedOut /\ Len(history) = 8
  /\ Cents(history[7].balance) = 4336 /\ Cents(balance) = 8022

====
